---------------------------- MODULE Spec2Model ----------------------------
(***************************************************************************)
(* A model of the ML-API router.                                           *)
(*                                                                         *)
(*   src/src/router/router.py          MLRouter, PredictRequest            *)
(*   src/src/common/model_routes.py    ModelRoutes.get_route               *)
(*   src/src/common/uvicorn_server.py  UvicornServer, the exception handler*)
(*   src/src/common/response_types.py  ErrorResponse                       *)
(*                                                                         *)
(* The specifications share the variables:                               *)
(*   Spec / FairSpec  the running router: MLRouter.run, then concurrent    *)
(*                    MLRouter.predict tasks, with the route file changing *)
(*                    underneath;                                          *)
(*   SpecRoutes       ModelRoutes.get_route called against a changing file;*)
(*   SpecServer       UvicornServer.add_route / app / run called in any    *)
(*                    order.                                               *)
(***************************************************************************)
EXTENDS Integers, Sequences, FiniteSets, TLC

VARIABLES
    routes,         \* MLRouter._routes                       (router.py:32)
    task,           \* one record per in-flight call of MLRouter.predict
    store,          \* the file at ModelRoutes.LOCAL_MODEL_ROUTES_FILE_PATH
    lastResolve,    \* the last call of ModelRoutes.get_route and its outcome
    app,            \* UvicornServer._app                     (uvicorn_server.py:17)
    custom_routes,  \* UvicornServer._custom_routes            (uvicorn_server.py:18)
    running,        \* uvicorn.run is serving                 (uvicorn_server.py:165)
    addCalls,       \* how many times add_route was called after MLRouter.__init__
    addResult,      \* how the last of those calls ended
    appAccessed     \* history: the app property has been read (directly or by run)

vars == <<routes, task, store, lastResolve, app, custom_routes, running,
          addCalls, addResult, appAccessed>>

routerVars == <<routes, task>>
storeVars  == <<store, lastResolve>>
serverVars == <<app, custom_routes, running, addCalls, addResult, appAccessed>>

None == "None"

-----------------------------------------------------------------------------
(* Bounds *)

\* Number of predict calls that may be in flight together.
MaxReq == 2
\* Number of add_route calls made after MLRouter.__init__.
MaxAddCalls == 2

Requests == 1..MaxReq

-----------------------------------------------------------------------------
(* Python exceptions and JSON responses *)

Exc(type, msg) == [type |-> type, msg |-> msg]

Raise(exc) == [kind |-> "raise", exc |-> exc]
Return(v)  == [kind |-> "return", value |-> v]

JSONResponse(content, status_code) == [status |-> status_code, body |-> content]

\* response_types.py: ErrorResponse(error=..., error_type=...).model_dump()
ErrorResponse(error, error_type) ==
    [success |-> FALSE, error |-> error, error_type |-> error_type, details |-> None]

\* uvicorn_server.py: the handler registered for Exception
global_exception_handler(exc) ==
    JSONResponse(ErrorResponse(exc.msg, exc.type), 500)

-----------------------------------------------------------------------------
(* UvicornServer (uvicorn_server.py) *)

\* UvicornServer._app is None (line 17).
NoApp == [created |-> FALSE]

\* The keys _create_app pops from every route_config (lines 122-124).
PoppedKeys == {"endpoint", "path", "methods"}

\* The dict add_route appends (lines 64-73); `methods or ["GET"]`, `tags or ["Custom"]`.
\* A methods argument of None and of [] are both falsy: both are written <<>>.
RouteConfig(path, endpoint, methods) ==
    [path |-> path, endpoint |-> endpoint,
     methods |-> IF methods = <<>> THEN <<"GET">> ELSE methods,
     response_model |-> None, tags |-> <<"Custom">>,
     summary |-> None, description |-> None]

\* A route_config after endpoint, path and methods were popped from it.
Popped(cfg) == [k \in (DOMAIN cfg) \ PoppedKeys |-> cfg[k]]

\* What app.add_api_route registers for one route_config (lines 126-131).
ApiRoute(cfg) ==
    [path |-> cfg.path, endpoint |-> cfg.endpoint,
     methods |-> IF "methods" \in DOMAIN cfg THEN cfg.methods ELSE <<"GET">>]

\* _create_app (lines 75-134): the FastAPI app with the custom routes, in order;
\* the dicts of _custom_routes are mutated by the pops.
create_app_routes(cr) == [i \in DOMAIN cr |-> ApiRoute(cr[i])]
create_app_popped(cr) == [i \in DOMAIN cr |-> Popped(cr[i])]

\* add_route_raises without the guard on _app: routes may be added at any time.
add_route_raises_unguarded(a) == FALSE

\* add_route's guard (lines 58-62): `if self._app is not None: raise RuntimeError`.
add_route_raises(a) == a # NoApp

\* add_route (lines 20-73).
add_route(path, endpoint, methods) ==
    /\ addCalls < MaxAddCalls
    /\ addCalls' = addCalls + 1
    /\ IF add_route_raises(app)
       THEN /\ addResult' = "RuntimeError"
            /\ UNCHANGED custom_routes
       ELSE /\ addResult' = "ok"
            /\ custom_routes' = Append(custom_routes, RouteConfig(path, endpoint, methods))
    /\ UNCHANGED <<app, running, appAccessed>>
    /\ UNCHANGED <<routerVars, storeVars>>

\* The app property (lines 136-141): created on the first read, then kept.
app_property ==
    /\ appAccessed' = TRUE
    /\ IF app = NoApp
       THEN /\ app' = [created |-> TRUE, routes |-> create_app_routes(custom_routes)]
            /\ custom_routes' = create_app_popped(custom_routes)
       ELSE UNCHANGED <<app, custom_routes>>

\* Reading server.app from outside (tests, an ASGI runner).
AccessApp ==
    /\ app_property
    /\ UNCHANGED <<running, addCalls, addResult>>
    /\ UNCHANGED <<routerVars, storeVars>>

\* UvicornServer.run (lines 143-171), called by MLRouter.run (router.py:67-68):
\* reads self.app and serves it.
Run ==
    /\ ~running
    /\ app_property
    /\ running' = TRUE
    /\ UNCHANGED <<addCalls, addResult>>
    /\ UNCHANGED <<routerVars, storeVars>>

\* The arguments add_route is called with.
Paths == {"/batch", "/analyze", "/health"}
MethodArgs == {<<>>, <<"POST">>}

AddRoute == \E p \in Paths, m \in MethodArgs : add_route(p, "handler", m)

-----------------------------------------------------------------------------
(* ModelRoutes (model_routes.py) *)

\* The route file: absent, or present with some text. A text is not JSON, or a
\* JSON object (a set of <<key, value>> pairs with unique keys), or a JSON list.
FileAbsent == [exists |-> FALSE]
File(doc)  == [exists |-> TRUE, doc |-> doc]

NotJson       == [json |-> FALSE]
JsonDict(t)   == [json |-> TRUE, type |-> "dict", items |-> t]
JsonList(els) == [json |-> TRUE, type |-> "list", elems |-> els]

Keys(t) == {kv[1] : kv \in t}
Get(t, k) == (CHOOSE kv \in t : kv[1] = k)[2]

TableKeys  == {"model1", "model3"}
TableAddrs == {"http://0.0.0.0:8001", "http://0.0.0.0:9003"}
Tables == {t \in SUBSET (TableKeys \X TableAddrs) :
             \A kv1, kv2 \in t : kv1[1] = kv2[1] => kv1 = kv2}

StoreContents ==
    {FileAbsent, File(NotJson), File(JsonList({"model1"}))}
      \cup {File(JsonDict(t)) : t \in Tables}

\* The names get_route is called with.
LookupNames == {"", "model1", "model2", "model3"}

UnknownModelRoute(model_name) == Exc("UnknownModelRoute", <<"Unknown model", model_name>>)

\* get_route without its `except FileNotFoundError`: a missing file escapes as it is.
get_route_no_except(file, model_name) ==
    IF ~file.exists
    THEN Raise(Exc("FileNotFoundError", <<"No such file or directory">>))
    ELSE IF ~file.doc.json
    THEN Raise(Exc("JSONDecodeError", <<"Expecting value">>))
    ELSE IF file.doc.type = "dict"
    THEN IF model_name \notin Keys(file.doc.items)
         THEN Raise(UnknownModelRoute(model_name))
         ELSE Return(Get(file.doc.items, model_name))
    ELSE IF model_name \notin file.doc.elems
         THEN Raise(UnknownModelRoute(model_name))
         ELSE Raise(Exc("TypeError", <<"list indices must be integers or slices, not str">>))

\* get_route (lines 20-32): open, read, json.loads, look the name up; only
\* FileNotFoundError is caught and becomes UnknownModelRoute.
get_route(file, model_name) ==
    IF ~file.exists
    THEN Raise(UnknownModelRoute(model_name))
    ELSE IF ~file.doc.json
    THEN Raise(Exc("JSONDecodeError", <<"Expecting value">>))
    ELSE IF file.doc.type = "dict"
    THEN IF model_name \notin Keys(file.doc.items)
         THEN Raise(UnknownModelRoute(model_name))
         ELSE Return(Get(file.doc.items, model_name))
    ELSE IF model_name \notin file.doc.elems
         THEN Raise(UnknownModelRoute(model_name))
         ELSE Raise(Exc("TypeError", <<"list indices must be integers or slices, not str">>))

NotCalled == [called |-> FALSE]

\* A caller awaits get_route(model_name); the coroutine has no suspension point,
\* so the file it reads is the file of this step.
GetRoute ==
    \E n \in LookupNames :
        /\ lastResolve' = [called |-> TRUE, name |-> n, seen |-> store,
                           outcome |-> get_route(store, n)]
        /\ UNCHANGED <<store, routerVars, serverVars>>

\* Something outside the program replaces, creates or deletes the route file.
StoreWrite(contents) ==
    \E c \in contents :
        /\ c # store
        /\ store' = c
        /\ UNCHANGED <<lastResolve, routerVars, serverVars>>

-----------------------------------------------------------------------------
(* MLRouter.predict (router.py) : the inbound request *)

Absent == [none |-> TRUE]

\* JSON values of the inbound body, by type.
Str(v)   == [type |-> "str", val |-> v]
Num(v)   == [type |-> "int", val |-> v]
Dict(v)  == [type |-> "dict", val |-> v]
List(v)  == [type |-> "list", val |-> v]

\* The bytes of an inbound body: not JSON, or a JSON list, or a JSON object
\* with some of the fields.
WireGarbage   == [json |-> FALSE]
WireList      == [json |-> TRUE, type |-> "list"]
WireObject(f) == [json |-> TRUE, type |-> "dict", fields |-> f]

RequestModels == {"model1", "model2", "model3", ""}

WellFormedBodies ==
    {WireObject([model |-> Str(m), model_data |-> Dict("x=1")]) : m \in RequestModels}

MalformedBodies ==
    {WireGarbage, WireList,
     WireObject([model_data |-> Dict("x=1")]),
     WireObject([model |-> Str("model1")]),
     WireObject([model |-> Num("7"), model_data |-> Dict("x=1")]),
     WireObject([model |-> Str("model1"), model_data |-> List("x=1")])}

InboundBodies == WellFormedBodies \cup MalformedBodies

\* `await request.json()` (line 41).
request_json(wire) ==
    IF wire.json
    THEN Return(wire)
    ELSE Raise(Exc("JSONDecodeError", <<"Expecting value">>))

\* One field of PredictRequest (lines 14-16) against the parsed object.
FieldErrors(fields, name, type, code) ==
    IF name \notin DOMAIN fields THEN <<name, "missing">>
    ELSE IF fields[name].type # type THEN <<name, code>>
    ELSE <<>>

\* PredictRequest.model_validate(body) (line 42): model_data: dict, model: str;
\* no coercion of an int to str or of a list to dict; every failing field is
\* reported, in the order the fields are declared.
model_validate(body) ==
    IF body.type # "dict"
    THEN Raise(Exc("ValidationError", <<"PredictRequest", "model_type">>))
    ELSE LET errs == FieldErrors(body.fields, "model_data", "dict", "dict_type")
                       \o FieldErrors(body.fields, "model", "str", "string_type")
         IN  IF errs # <<>>
             THEN Raise(Exc("ValidationError", errs))
             ELSE Return([model |-> body.fields.model.val,
                          model_data |-> body.fields.model_data.val])

\* Lines 41-47: decode, validate, look the model up in self._routes. Nothing in
\* these lines is inside the try block: a raise leaves predict.
predict_head(table, wire) ==
    LET body == request_json(wire) IN
    IF body.kind = "raise" THEN body
    ELSE LET pred_request == model_validate(body.value) IN
         IF pred_request.kind = "raise" THEN pred_request
         ELSE IF pred_request.value.model \notin DOMAIN table
              THEN Raise(Exc("ValueError", <<"Unknown model", pred_request.value.model>>))
              ELSE Return([pred |-> pred_request.value,
                           route |-> table[pred_request.value.model]])

-----------------------------------------------------------------------------
(* MLRouter.predict (router.py) : the outbound call and the response *)

\* A body on the wire is a sequence of tokens; "ws" is insignificant whitespace.
JsonNull       == [type |-> "null"]
JsonObj(k, v)  == [type |-> "dict", key |-> k, val |-> v]

JsonKeys    == {"y"}
JsonScalars == {"2", "NaN"}

NoWs(text) == SelectSeq(text, LAMBDA t : t # "ws")

\* json.loads: Python's decoder accepts NaN.
json_loads(text) ==
    LET t == NoWs(text) IN
    IF t = <<"null">> THEN Return(JsonNull)
    ELSE IF /\ Len(t) = 5
            /\ t[1] = "{" /\ t[2] \in JsonKeys /\ t[3] = ":"
            /\ t[4] \in JsonScalars /\ t[5] = "}"
         THEN Return(JsonObj(t[2], t[4]))
         ELSE Raise(Exc("JSONDecodeError", <<"Expecting value">>))

\* aiohttp's ClientResponse.json(): the content type is checked first, an
\* empty (or all-whitespace) body is None, anything else goes to json.loads.
response_json(response) ==
    IF response.ctype # "application/json"
    THEN Raise(Exc("ContentTypeError", <<"unexpected mimetype", response.ctype>>))
    ELSE IF NoWs(response.text) = <<>>
    THEN Return(JsonNull)
    ELSE json_loads(response.text)

\* Starlette's JSONResponse.render: json.dumps(content, allow_nan=False,
\* separators=(",", ":")).
json_dumps(content) ==
    IF content.type = "null" THEN Return(<<"null">>)
    ELSE IF content.val = "NaN"
    THEN Raise(Exc("ValueError", <<"Out of range float values are not JSON compliant">>))
    ELSE Return(<<"{", content.key, ":", content.val, "}">>)

\* What the upstream can do with the one POST: answer, or fail in transport.
Answer(status, ctype, text) ==
    [kind |-> "response", status |-> status, ctype |-> ctype, text |-> text]
Failure(reason) == [kind |-> "error", reason |-> reason]

TransportFaults == {"ClientConnectorError", "TimeoutError"}

UpstreamAnswers ==
    {Answer(200, "application/json", <<"{", "y", ":", "2", "}">>),
     Answer(200, "application/json", <<"{", "y", ":", "ws", "2", "}">>),
     Answer(200, "application/json", <<"{", "y", ":", "NaN", "}">>),
     Answer(200, "application/json", <<>>),
     Answer(404, "application/json", <<"{", "y", ":", "2", "}">>),
     Answer(503, "application/json", <<"{", "y", ":", "ws", "2", "}">>),
     Answer(503, "text/html", <<"<html>">>)}

UpstreamOutcomes == UpstreamAnswers \cup {Failure(f) : f \in TransportFaults}

\* on_exception returning the exception's text instead of the fixed payload.
on_exception_leaks(exc) == JSONResponse([error |-> <<exc.type>> \o exc.msg], 500)

\* Lines 57-65: `except Exception as err`: logged, and a fixed payload returned.
on_exception(exc) == JSONResponse([error |-> <<"Unexpected error">>], 500)

\* relayed without status_code: the response gets JSONResponse's default, 200.
relayed_default_status(text, status) == JSONResponse([json |-> text], 200)

\* Lines 53-56: JSONResponse(content=..., status_code=response.status), rendered.
relayed(text, status) == JSONResponse([json |-> text], status)

\* Lines 50-65, from the moment the POST ends: the try block and its handler.
predict_tail(outcome) ==
    IF outcome.kind = "error"
    THEN on_exception(Exc(outcome.reason, <<"Cannot connect to host">>))
    ELSE LET content == response_json(outcome) IN
         IF content.kind = "raise" THEN on_exception(content.exc)
         ELSE LET body == json_dumps(content.value) IN
              IF body.kind = "raise" THEN on_exception(body.exc)
              ELSE relayed(body.value, outcome.status)

-----------------------------------------------------------------------------
(* The tasks running MLRouter.predict *)

IdleTask ==
    [pc |-> "idle", inbound |-> Absent, pred |-> Absent, route |-> "",
     calls |-> 0, target |-> "", hung |-> FALSE, outcome |-> Absent,
     fault |-> Absent, resp |-> Absent]

\* The route MLRouter.__init__ registers (router.py:26-30).
PredictRoute == RouteConfig("/predict", "predict", <<"POST">>)

Serving ==
    /\ running
    /\ app.created
    /\ \E i \in DOMAIN app.routes :
          /\ app.routes[i].path = "/predict"
          /\ app.routes[i].endpoint = "predict"
          /\ "POST" \in {app.routes[i].methods[j] : j \in DOMAIN app.routes[i].methods}

\* A POST /predict arrives and FastAPI starts predict for it. Slots fill in
\* order: slot r is the r-th request received.
Receive(r, wire) ==
    /\ Serving
    /\ task[r].pc = "idle"
    /\ \A q \in Requests : q < r => task[q].pc # "idle"
    /\ task' = [task EXCEPT ![r] = [@ EXCEPT !.pc = "body", !.inbound = wire]]
    /\ UNCHANGED <<routes, storeVars, serverVars>>

\* Lines 41-48: the body has arrived. A raise here goes to FastAPI's
\* handler for Exception, whose response ends the request.
DecodeResolve(r) ==
    /\ task[r].pc = "body"
    /\ LET head == predict_head(routes, task[r].inbound) IN
       IF head.kind = "raise"
       THEN task' = [task EXCEPT ![r] = [@ EXCEPT !.pc = "done",
                        !.fault = head.exc,
                        !.resp = global_exception_handler(head.exc)]]
       ELSE task' = [task EXCEPT ![r] = [@ EXCEPT !.pc = "forward",
                        !.pred = head.value.pred,
                        !.route = head.value.route]]
    /\ UNCHANGED <<routes, storeVars, serverVars>>

\* MayPost with one upstream call at a time (a shared lock, or one shared
\* connection).
MayPost_serialised(r) == \A q \in Requests : task[q].pc # "await"

\* Lines 51-52 take no lock and share no session: a task may always post.
MayPost(r) == TRUE

\* Lines 51-52: a session on the route, and the one POST; the task then waits
\* for the upstream, which may never answer (hung).
Post(r, h) ==
    /\ task[r].pc = "forward"
    /\ MayPost(r)
    /\ task' = [task EXCEPT ![r] = [@ EXCEPT !.pc = "await",
                   !.calls = @ + 1, !.target = task[r].route, !.hung = h]]
    /\ UNCHANGED <<routes, storeVars, serverVars>>

\* after_outcome with one retry: a failed call is tried again.
after_outcome_retry(t, outcome) ==
    IF outcome.kind = "error" /\ t.calls < 2
    THEN [t EXCEPT !.pc = "forward"]
    ELSE [t EXCEPT !.pc = "done", !.outcome = outcome, !.resp = predict_tail(outcome)]

\* Lines 53-65: whatever the POST ended with, predict returns a response.
after_outcome(t, outcome) ==
    [t EXCEPT !.pc = "done", !.outcome = outcome, !.resp = predict_tail(outcome)]

\* The POST ends: the upstream answered, or the transport failed.
UpstreamCompletes(r, outcome) ==
    /\ task[r].pc = "await"
    /\ ~task[r].hung
    /\ task' = [task EXCEPT ![r] = after_outcome(@, outcome)]
    /\ UNCHANGED <<routes, storeVars, serverVars>>

-----------------------------------------------------------------------------
(* Specifications *)

\* The route files the running router is checked against.
RouterStoreContents ==
    {FileAbsent,
     File(JsonDict({<<"model1", "http://0.0.0.0:9003">>, <<"model3", "http://0.0.0.0:9003">>}))}

\* MLRouter() constructed (router.py:23-35): the server with the /predict
\* route registered and no app yet, and the table of routes.
Constructed ==
    /\ routes = [model1 |-> "http://0.0.0.0:8001", model2 |-> "http://0.0.0.0:8002"]
    /\ task = [r \in Requests |-> IdleTask]
    /\ lastResolve = NotCalled
    /\ app = NoApp
    /\ custom_routes = <<PredictRoute>>
    /\ running = FALSE
    /\ addCalls = 0
    /\ addResult = "none"
    /\ appAccessed = FALSE

Init == Constructed /\ store \in RouterStoreContents

Next ==
    \/ Run
    \/ \E r \in Requests, w \in InboundBodies : Receive(r, w)
    \/ \E r \in Requests : DecodeResolve(r)
    \/ \E r \in Requests, h \in BOOLEAN : Post(r, h)
    \/ \E r \in Requests, o \in UpstreamOutcomes : UpstreamCompletes(r, o)
    \/ StoreWrite(RouterStoreContents)

Spec == Init /\ [][Next]_vars

\* The running router under the event loop's scheduling, with fewer kinds of
\* input: a request for each known model and for an unknown one, an upstream
\* that answers, fails or hangs.
FairBodies   == {WireObject([model |-> Str(m), model_data |-> Dict("x=1")]) :
                   m \in {"model1", "model2", "model3"}}
FairOutcomes == {Answer(200, "application/json", <<"{", "y", ":", "2", "}">>),
                 Failure("TimeoutError")}

NextFair ==
    \/ Run
    \/ \E r \in Requests, w \in FairBodies : Receive(r, w)
    \/ \E r \in Requests : DecodeResolve(r)
    \/ \E r \in Requests, h \in BOOLEAN : Post(r, h)
    \/ \E r \in Requests, o \in FairOutcomes : UpstreamCompletes(r, o)
    \/ StoreWrite(RouterStoreContents)

\* The event loop runs every task that is ready, and an upstream call that is
\* not hung ends (with an answer or with a transport failure).
Fairness ==
    /\ WF_vars(Run)
    /\ \A r \in Requests :
          /\ WF_vars(DecodeResolve(r))
          /\ WF_vars(\E h \in BOOLEAN : Post(r, h))
          /\ WF_vars(\E o \in FairOutcomes : UpstreamCompletes(r, o))

FairSpec == Init /\ [][NextFair]_vars /\ Fairness

\* ModelRoutes alone, against any route file.
InitRoutes == Constructed /\ store \in StoreContents

NextRoutes ==
    \/ GetRoute
    \/ StoreWrite(StoreContents)

SpecRoutes == InitRoutes /\ [][NextRoutes]_vars

\* UvicornServer alone, its methods called in any order.
InitServer == Constructed /\ store = FileAbsent

NextServer ==
    \/ AddRoute
    \/ AccessApp
    \/ Run

SpecServer == InitServer /\ [][NextServer]_vars

-----------------------------------------------------------------------------
(* Properties *)

Done(r)     == task[r].pc = "done"
Answered(r) == Done(r) /\ task[r].outcome # Absent /\ task[r].outcome.kind = "response"
Failed(r)   == Done(r) /\ task[r].outcome # Absent /\ task[r].outcome.kind = "error"
Faulted(r)  == Done(r) /\ task[r].fault # Absent

\* The fixed opaque payload.
Generic500 == [status |-> 500, body |-> [error |-> <<"Unexpected error">>]]

ClientError(resp) == resp.status >= 400 /\ resp.status <= 499

\* The inbound body decodes and names a model of the route table.
Resolves(wire) ==
    /\ wire \in WellFormedBodies
    /\ wire.fields.model.val \in DOMAIN routes

\* The inbound body decodes and names a model the route table does not have.
UnknownModel(wire) ==
    /\ wire \in WellFormedBodies
    /\ wire.fields.model.val \notin DOMAIN routes

\* The inbound body is a JSON object with a required field missing or mistyped.
FieldFault(wire) == wire \in MalformedBodies \ {WireGarbage, WireList}

Range(seq) == {seq[i] : i \in DOMAIN seq}

\* An upstream answer the router can relay: JSON content type, a body that is
\* empty or JSON text, and no NaN in it.
JsonTexts == {<<"null">>} \cup {<<"{", k, ":", v, "}">> : k \in JsonKeys, v \in JsonScalars}
Relayable(o) ==
    /\ o.ctype = "application/json"
    /\ NoWs(o.text) \in JsonTexts \cup {<<>>}
    /\ "NaN" \notin Range(o.text)
JsonValue(text) == IF NoWs(text) = <<>> THEN JsonNull ELSE json_loads(text).value

C2_TransportFailureOpaque ==
    /\ \A r \in Requests : Failed(r) => task[r].resp = Generic500
    /\ \A r, q \in Requests : Failed(r) /\ Failed(q) => task[r].resp = task[q].resp

\* Two requests that failed for different reasons got their responses.
C2_Witness ==
    \E r, q \in Requests :
        /\ Failed(r) /\ Failed(q)
        /\ task[r].outcome.reason = "ClientConnectorError"
        /\ task[q].outcome.reason = "TimeoutError"
        /\ task[r].calls = 1 /\ task[q].calls = 1

\* C3: a well-formed request for a model the route table does not have ends
\* with a 4xx response that names the model, and no outbound call is made.
C3_UnknownModelClientError ==
    \A r \in Requests :
        Done(r) /\ UnknownModel(task[r].inbound) =>
            /\ ClientError(task[r].resp)
            /\ task[r].inbound.fields.model.val \in Range(task[r].resp.body.error)
            /\ task[r].calls = 0

\* C5: a request whose body lacks a required field, or has one of the wrong
\* type, ends with a 4xx response carrying the details, and no outbound call.
C5_MalformedClientError ==
    \A r \in Requests :
        Done(r) /\ FieldFault(task[r].inbound) =>
            /\ ClientError(task[r].resp)
            /\ task[r].resp.body.error # <<>>
            /\ task[r].calls = 0
            /\ task[r].route = ""

\* C6: a fault the handler does not catch reaches the caller as the fixed 500
\* payload, whatever the fault's message and type.
C6_UnhandledFaultGeneric ==
    \A r \in Requests : Faulted(r) => task[r].resp = Generic500

\* C4: with the route file absent or holding a table, get_route returns the
\* address mapped to the name when the table has the name, and raises
\* UnknownModelRoute, and nothing else, when the table lacks the name (the
\* empty string included) or the file is absent.
C4_ResolveTotal ==
    lastResolve.called =>
        LET f == lastResolve.seen
            n == lastResolve.name
            o == lastResolve.outcome
        IN  (f = FileAbsent \/ f \in {File(JsonDict(t)) : t \in Tables}) =>
                IF f.exists /\ n \in Keys(f.doc.items)
                THEN \E kv \in f.doc.items : kv[1] = n /\ o = Return(kv[2])
                ELSE o.kind = "raise" /\ o.exc.type = "UnknownModelRoute"

\* get_route was called with the empty string while the file was absent, and
\* raised UnknownModelRoute; the file has been created since.
C4_Witness ==
    /\ lastResolve.called
    /\ lastResolve.seen = FileAbsent
    /\ lastResolve.name = ""
    /\ lastResolve.outcome = Raise(UnknownModelRoute(""))
    /\ store \in {File(JsonDict(t)) : t \in Tables}

\* C7: concurrent predict calls do not interfere: a call is only ever
\* forwarded to the address of its own model; a step of one call changes no
\* other call and nothing shared (the route table, the route file, the
\* server); and a call whose own upstream is not hung completes, whatever
\* the other calls wait for.
C7_NoInterference ==
    /\ [](\A r \in Requests :
            task[r].calls > 0 => task[r].target = routes[task[r].inbound.fields.model.val])
    /\ [][/\ task' # task => UNCHANGED <<routes, storeVars, serverVars>>
          /\ \A r, q \in Requests : r # q /\ task'[r] # task[r] => task'[q] = task[q]]_vars
    /\ \A r \in Requests :
          (task[r].pc \in {"body", "forward"}) ~> (task[r].pc \in {"await", "done"})
    /\ \A r \in Requests :
          (task[r].pc = "await" /\ ~task[r].hung) ~> Done(r)

\* The first request waits on a hung upstream while a later request, for the
\* same model, was answered and relayed.
C7_Witness ==
    \E r, q \in Requests :
        /\ r < q
        /\ task[r].pc = "await" /\ task[r].hung
        /\ task[r].target = task[q].target
        /\ Answered(q) /\ task[q].resp.status = 200

\* C8: add_route appends exactly one entry while the app has not been read;
\* once the app property has been read (or run called) it raises
\* RuntimeError and leaves the registered routes and the app as they were.
C8_AddRouteOnlyBeforeApp ==
    [][addCalls' # addCalls =>
         IF appAccessed
         THEN /\ addResult' = "RuntimeError"
              /\ custom_routes' = custom_routes
              /\ app' = app
         ELSE /\ addResult' = "ok"
              /\ Len(custom_routes') = Len(custom_routes) + 1
              /\ SubSeq(custom_routes', 1, Len(custom_routes)) = custom_routes
              /\ app' = app]_vars

\* One route was added before the app was read and a later add_route raised.
C8_Witness ==
    /\ appAccessed
    /\ addResult = "RuntimeError"
    /\ addCalls = 2
    /\ Len(custom_routes) = 2
    /\ Len(app.routes) = 2

C10_ResolvesFromStore ==
    [][\A r \in Requests :
          task[r].pc = "body" /\ task'[r].pc # "body" /\ task[r].inbound \in WellFormedBodies =>
              LET now == get_route(store, task[r].inbound.fields.model.val)
              IN  IF now.kind = "return"
                  THEN task'[r].pc = "forward" /\ task'[r].route = now.value
                  ELSE task'[r].pc = "done"]_vars

====
